---- MODULE Spec2Model ----
(***************************************************************************)
(* Model of src/src/component/select.tsx: the Select (single value) and    *)
(* MultiSelect (array value) dropdown widgets.                             *)
(*                                                                         *)
(* A state is one rendered widget: its props (multi, creatable, maxLength, *)
(* options, disabled, value), its React state (isOpen, inputValue), the    *)
(* `disabled` prop captured by the document mousedown listener that the    *)
(* effect attached when isOpen last changed, and the callbacks the last    *)
(* event invoked.  Strings are sequences of one-character strings, so that *)
(* trim, toLowerCase and includes are computed, never assumed.             *)
(***************************************************************************)
EXTENDS Integers, Sequences, FiniteSets, TLC

\* ------------------------------------------------------------------ bounds
\* longest text an edit may offer to the text field
MaxLen == 2
\* longest value array the caller lets the multi-select grow to
MaxVals == 2

\* ----------------------------------------------------------------- strings
Chars == {"a", "A", " "}

Texts == UNION {[1..n -> Chars] : n \in 0..MaxLen}

\* String.prototype.toLowerCase on one UTF-16 unit of the alphabet
lowerChar(c) == IF c = "A" THEN "a" ELSE c

toLowerCase(s) == [i \in 1..Len(s) |-> lowerChar(s[i])]

\* String.prototype.includes
includes(s, t) == \E i \in 0..(Len(s) - Len(t)) : SubSeq(s, i + 1, i + Len(t)) = t

\* String.prototype.trim
trim(s) ==
    LET keep == {i \in 1..Len(s) : s[i] # " "}
    IN  IF keep = {} THEN <<>>
        ELSE SubSeq(s, CHOOSE i \in keep : \A j \in keep : i <= j,
                       CHOOSE i \in keep : \A j \in keep : j <= i)

\* Array.prototype.includes
arrayIncludes(arr, v) == \E i \in 1..Len(arr) : arr[i] = v

\* Array.prototype.filter(x => x !== v)
RECURSIVE arrayWithout(_, _)
arrayWithout(arr, v) ==
    IF arr = <<>> THEN <<>>
    ELSE IF Head(arr) = v THEN arrayWithout(Tail(arr), v)
         ELSE <<Head(arr)>> \o arrayWithout(Tail(arr), v)

\* JavaScript truthiness of `maxLength` (undefined and 0 are both falsy; the
\* model writes 0 for either)
maxLengthSet(m) == m # 0

\* ----------------------------------------------------------------- options
\* <SelectItem value="a">A</SelectItem>: a plain-text label
ItemPlain == [value |-> <<"a">>, label |-> <<"A">>, plain |-> TRUE]
\* <SelectItem value="Aa"><b>..</b></SelectItem>: the label is not a string
ItemRich == [value |-> <<"A", "a">>, label |-> <<>>, plain |-> FALSE]

OptionLists == {<<ItemPlain>>, <<ItemPlain, ItemRich>>, <<ItemRich, ItemPlain>>}

VARIABLES
    multi,             \* FALSE: <Select>, TRUE: <MultiSelect>
    creatable,         \* prop
    maxLength,         \* prop; 0 when falsy (undefined)
    options,           \* the SelectItem children of SelectContent, in order
    defaultOpen,       \* prop, read once by useState at mount
    disabled,          \* prop, the caller may change it between events
    value,             \* controlled prop: a string (Select) or an array of strings
    isOpen,            \* useState internalOpen
    inputValue,        \* useState inputValue
    listenerDisabled,  \* `disabled` as closed over by the attached mousedown listener
    calls,             \* callbacks invoked by the last event, in order
    last,              \* the last event and its argument
    pre,               \* disabled, value, isOpen, inputValue as the last event found them
    toggledFrom,       \* <<array>> when the last two events toggled the same item, from array
    reported           \* what the caller last heard from onOpenChange; defaultOpen before that

vars == <<multi, creatable, maxLength, options, defaultOpen, disabled, value, isOpen,
          inputValue, listenerDisabled, calls, last, pre, toggledFrom, reported>>

props == <<multi, creatable, maxLength, options, defaultOpen>>

\* ---------------------------------------------------------------- callbacks
OpenCall(open) == [cb |-> "onOpenChange", open |-> open, val |-> <<>>]
ValueCall(v) == [cb |-> "onValueChange", open |-> FALSE, val |-> v]
CreateCall(t) == [cb |-> "onCreateOption", open |-> FALSE, val |-> t]

\* The render an event's handlers were created in, as the record they update:
\* the setters' pending values, the controlled value as the caller will pass it
\* back, the callbacks invoked so far, and whether the DOM event still bubbles.
Render ==
    [isOpen |-> isOpen, inputValue |-> inputValue, value |-> value,
     calls |-> <<>>, bubbles |-> TRUE]

invoke(s, call) == [s EXCEPT !.calls = Append(@, call)]

\* the caller's onValueChange stores what it is given (a controlled component)
onValueChange(s, v) == [invoke(s, ValueCall(v)) EXCEPT !.value = v]

\* item label used for matching
itemLabel(o) == IF o.plain THEN o.label ELSE o.value

\* labelMatches with the label left in its own case
labelMatches_caseSensitive(o, text) == includes(itemLabel(o), toLowerCase(text))

\* the predicate shared by the three filters and the two hasMatch tests
labelMatches(o, text) == includes(toLowerCase(itemLabel(o)), toLowerCase(text))

RECURSIVE filterItems(_, _)
filterItems(items, text) ==
    IF items = <<>> THEN <<>>
    ELSE IF labelMatches(Head(items), text)
         THEN <<Head(items)>> \o filterItems(Tail(items), text)
         ELSE filterItems(Tail(items), text)

\* ------------------------------------------------------------------ Select
\* handleOpenChange without its `if (disabled) return`
Select_handleOpenChange_unguarded(d, s, open) ==
    LET s1 == invoke([s EXCEPT !.isOpen = open], OpenCall(open))
    IN  IF ~open THEN [s1 EXCEPT !.inputValue = <<>>] ELSE s1

\* `d` is the `disabled` prop of the render whose closure is running
Select_handleOpenChange(d, s, open) ==
    IF d THEN s
    ELSE LET s1 == invoke([s EXCEPT !.isOpen = open], OpenCall(open))
         IN  IF ~open THEN [s1 EXCEPT !.inputValue = <<>>] ELSE s1

Select_handleValueChange(s, newValue) ==
    IF maxLengthSet(maxLength) /\ Len(newValue) > maxLength THEN s
    ELSE LET s1 == onValueChange(s, newValue)
             s2 == Select_handleOpenChange(disabled, s1, FALSE)
         IN  [s2 EXCEPT !.inputValue = <<>>]

\* handleInputChange without its `if (!isOpen)` test
Select_handleInputChange_alwaysOpening(s, newInputValue) ==
    IF maxLengthSet(maxLength) /\ Len(newInputValue) > maxLength THEN s
    ELSE Select_handleOpenChange(disabled, [s EXCEPT !.inputValue = newInputValue], TRUE)

Select_handleInputChange(s, newInputValue) ==
    IF maxLengthSet(maxLength) /\ Len(newInputValue) > maxLength THEN s
    ELSE LET s1 == [s EXCEPT !.inputValue = newInputValue]
         IN  IF ~isOpen THEN Select_handleOpenChange(disabled, s1, TRUE) ELSE s1

\* handleCreateValue creating the text as typed, not trimmed
Select_handleCreateValue_untrimmed(s) ==
    LET trimmedValue == trim(inputValue)
    IN  IF trimmedValue = <<>> THEN s
        ELSE IF maxLengthSet(maxLength) /\ Len(trimmedValue) > maxLength THEN s
        ELSE Select_handleValueChange(invoke(s, CreateCall(inputValue)), inputValue)

Select_handleCreateValue(s) ==
    LET trimmedValue == trim(inputValue)
    IN  IF trimmedValue = <<>> THEN s
        ELSE IF maxLengthSet(maxLength) /\ Len(trimmedValue) > maxLength THEN s
        ELSE Select_handleValueChange(invoke(s, CreateCall(trimmedValue)), trimmedValue)

Select_hasMatch == \E i \in 1..Len(options) : labelMatches(options[i], inputValue)

Select_handleKeyDown(s, key) ==
    IF ~creatable \/ trim(inputValue) = <<>> THEN s
    ELSE IF key = "Enter" /\ ~Select_hasMatch THEN Select_handleCreateValue(s)
    ELSE s

\* the filterValue prop Select hands to SelectContent
filterValue == IF creatable THEN inputValue ELSE <<>>

SelectContent_filteredChildren ==
    IF filterValue # <<>> THEN filterItems(options, filterValue) ELSE options

\* the "Create: '...'" row of SelectContent is rendered
SelectContent_createRow ==
    isOpen /\ SelectContent_filteredChildren = <<>> /\ creatable /\ filterValue # <<>>

\* the mousedown listener of the effect, with the closure it was attached with
Select_handleClickOutside(s) == Select_handleOpenChange(listenerDisabled, s, FALSE)

\* ------------------------------------------------------------- MultiSelect
MultiSelect_handleOpenChange(d, s, open) ==
    IF d THEN s
    ELSE LET s1 == invoke([s EXCEPT !.isOpen = open], OpenCall(open))
         IN  IF ~open THEN [s1 EXCEPT !.inputValue = <<>>] ELSE s1

\* handleToggleValue removing one occurrence (splice at indexOf), not every one
MultiSelect_handleToggleValue_removeFirst(s, selectedValue) ==
    LET at == CHOOSE i \in 1..(Len(value) + 1) :
                  /\ i <= Len(value) => value[i] = selectedValue
                  /\ \A j \in 1..(i - 1) : value[j] # selectedValue
        newValue == IF arrayIncludes(value, selectedValue)
                    THEN SubSeq(value, 1, at - 1) \o SubSeq(value, at + 1, Len(value))
                    ELSE Append(value, selectedValue)
    IN  [onValueChange(s, newValue) EXCEPT !.inputValue = <<>>]

MultiSelect_handleToggleValue(s, selectedValue) ==
    LET newValue == IF arrayIncludes(value, selectedValue)
                    THEN arrayWithout(value, selectedValue)
                    ELSE Append(value, selectedValue)
    IN  [onValueChange(s, newValue) EXCEPT !.inputValue = <<>>]

\* handleRemoveValue without e.stopPropagation()
MultiSelect_handleRemoveValue_bubbling(s, selectedValue) ==
    onValueChange(s, arrayWithout(value, selectedValue))

MultiSelect_handleRemoveValue(s, selectedValue) ==
    onValueChange([s EXCEPT !.bubbles = FALSE], arrayWithout(value, selectedValue))

\* handleCreateValue closing the dropdown after the commit, as Select's does
MultiSelect_handleCreateValue_closing(s) ==
    LET trimmedValue == trim(inputValue)
    IN  IF trimmedValue = <<>> \/ arrayIncludes(value, trimmedValue) THEN s
        ELSE IF maxLengthSet(maxLength) /\ Len(trimmedValue) > maxLength THEN s
        ELSE MultiSelect_handleOpenChange(
                 disabled,
                 onValueChange(invoke(s, CreateCall(trimmedValue)),
                               Append(value, trimmedValue)),
                 FALSE)

\* handleCreateValue without the `!value.includes(trimmedValue)` test
MultiSelect_handleCreateValue_noDuplicateTest(s) ==
    LET trimmedValue == trim(inputValue)
    IN  IF trimmedValue = <<>> THEN s
        ELSE IF maxLengthSet(maxLength) /\ Len(trimmedValue) > maxLength THEN s
        ELSE [onValueChange(invoke(s, CreateCall(trimmedValue)),
                            Append(value, trimmedValue))
                EXCEPT !.inputValue = <<>>]

MultiSelect_handleCreateValue(s) ==
    LET trimmedValue == trim(inputValue)
    IN  IF trimmedValue = <<>> \/ arrayIncludes(value, trimmedValue) THEN s
        ELSE IF maxLengthSet(maxLength) /\ Len(trimmedValue) > maxLength THEN s
        ELSE [onValueChange(invoke(s, CreateCall(trimmedValue)),
                            Append(value, trimmedValue))
                EXCEPT !.inputValue = <<>>]

MultiSelect_handleInputChange(s, newValue) ==
    IF maxLengthSet(maxLength) /\ Len(newValue) > maxLength THEN s
    ELSE [s EXCEPT !.inputValue = newValue]

MultiSelect_hasMatch == \E i \in 1..Len(options) : labelMatches(options[i], inputValue)

MultiSelect_handleKeyDown(s, key) ==
    IF ~creatable \/ trim(inputValue) = <<>> THEN s
    ELSE IF key = "Enter" /\ ~MultiSelect_hasMatch THEN MultiSelect_handleCreateValue(s)
    ELSE s

\* handleContainerClick toggling the dropdown, as Select's trigger does
MultiSelect_handleContainerClick_toggling(s) ==
    MultiSelect_handleOpenChange(disabled, s, ~isOpen)

MultiSelect_handleContainerClick(s) ==
    IF ~isOpen THEN MultiSelect_handleOpenChange(disabled, s, TRUE) ELSE s

MultiSelect_onFocus(s) ==
    IF ~isOpen THEN MultiSelect_handleOpenChange(disabled, s, TRUE) ELSE s

MultiSelect_handleClearAll(s) ==
    onValueChange([s EXCEPT !.bubbles = FALSE], <<>>)

MultiSelect_filteredChildren ==
    IF inputValue # <<>> THEN filterItems(options, inputValue) ELSE options

\* the "Create: '...'" row of MultiSelect is rendered
MultiSelect_createRow ==
    /\ isOpen
    /\ MultiSelect_filteredChildren = <<>>
    /\ creatable
    /\ trim(inputValue) # <<>>
    /\ ~arrayIncludes(value, trim(inputValue))

MultiSelect_handleClickOutside(s) == MultiSelect_handleOpenChange(listenerDisabled, s, FALSE)

\* a click inside the container div reaches handleContainerClick unless the
\* target's own handler stopped it
MultiSelect_bubble(s) == IF s.bubbles THEN MultiSelect_handleContainerClick(s) ELSE s

\* ------------------------------------------------------------ state machine
optionValues(opts) == {opts[i].value : i \in 1..Len(opts)}

\* arrays of at most n elements of S
arraysOver(S, n) == UNION {[1..k -> S] : k \in 0..n}

Keys == {"Enter", "Escape"}

Event(ev, arg) == [ev |-> ev, arg |-> arg]

Snapshot ==
    [disabled |-> disabled, value |-> value, isOpen |-> isOpen, inputValue |-> inputValue,
     listenerDisabled |-> listenerDisabled, reported |-> reported]

\* Mount: useState(defaultOpen), useState(''), and the effect's first run.
\* The caller's initial value is empty or made of option values (an initial
\* array is taken as given, duplicates included).
Init ==
    /\ multi \in BOOLEAN
    /\ creatable \in BOOLEAN
    /\ maxLength \in 0..(MaxLen - 1)
    /\ options \in OptionLists
    /\ disabled \in BOOLEAN
    /\ value \in IF multi THEN arraysOver(optionValues(options), MaxVals)
                 ELSE {<<>>} \cup optionValues(options)
    /\ defaultOpen \in BOOLEAN
    /\ isOpen = defaultOpen
    /\ inputValue = <<>>
    /\ listenerDisabled = (isOpen /\ disabled)
    /\ calls = <<>>
    /\ last = Event("mount", <<>>)
    /\ reported = defaultOpen
    /\ pre = Snapshot
    /\ toggledFrom = <<>>

\* The re-render after an event: the setters' values become the state, the
\* caller passes the value back, and the effect (deps [isOpen]) re-attaches the
\* mousedown listener, with the closure of this render, only when isOpen changed.
\* An event that would grow the array past MaxVals is left out of the model.
Commit(s, ev, arg) ==
    /\ multi => Len(s.value) <= MaxVals
    /\ last' = Event(ev, arg)
    /\ pre' = Snapshot
    /\ toggledFrom' = IF multi /\ ev = "ItemClick" /\ last = Event(ev, arg)
                      THEN <<pre.value>> ELSE <<>>
    /\ isOpen' = s.isOpen
    /\ inputValue' = s.inputValue
    /\ value' = s.value
    /\ calls' = s.calls
    /\ reported' = LET heard == SelectSeq(s.calls, LAMBDA c : c.cb = "onOpenChange")
                   IN  IF heard = <<>> THEN reported ELSE heard[Len(heard)].open
    /\ listenerDisabled' = IF ~s.isOpen THEN FALSE
                           ELSE IF s.isOpen # isOpen THEN disabled
                           ELSE listenerDisabled
    /\ UNCHANGED <<props, disabled>>

\* the caller re-renders the widget with the `disabled` prop flipped
SetDisabled ==
    /\ disabled' = ~disabled
    /\ calls' = <<>>
    /\ last' = Event("SetDisabled", <<>>)
    /\ pre' = Snapshot
    /\ toggledFrom' = <<>>
    /\ UNCHANGED <<props, value, isOpen, inputValue, listenerDisabled, reported>>

\* SelectTrigger: the button (not clickable while disabled) or, when creatable,
\* the div around the text field
SelectTriggerClick ==
    /\ ~multi
    /\ creatable \/ ~disabled
    /\ Commit(Select_handleOpenChange(disabled, Render, ~isOpen), "TriggerClick", <<>>)

SelectInputChange ==
    /\ ~multi /\ creatable /\ ~disabled
    /\ \E text \in Texts : Commit(Select_handleInputChange(Render, text), "InputChange", text)

SelectKeyDown ==
    /\ ~multi /\ creatable /\ ~disabled
    /\ \E key \in Keys : Commit(Select_handleKeyDown(Render, key), "KeyDown", <<key>>)

SelectItemClick ==
    /\ ~multi /\ isOpen
    /\ \E i \in 1..Len(SelectContent_filteredChildren) :
          Commit(Select_handleValueChange(Render, SelectContent_filteredChildren[i].value),
                 "ItemClick", SelectContent_filteredChildren[i].value)

SelectCreateRowClick ==
    /\ ~multi /\ SelectContent_createRow
    /\ Commit(Select_handleCreateValue(Render), "CreateRowClick", <<>>)

\* a mousedown outside the root, while the listener is attached
SelectClickOutside ==
    /\ ~multi /\ isOpen
    /\ Commit(Select_handleClickOutside(Render), "ClickOutside", <<>>)

MultiContainerClick ==
    /\ multi
    /\ Commit(MultiSelect_bubble(Render), "ContainerClick", <<>>)

MultiInputFocus ==
    /\ multi /\ creatable /\ ~disabled
    /\ Commit(MultiSelect_onFocus(Render), "InputFocus", <<>>)

MultiInputChange ==
    /\ multi /\ creatable /\ ~disabled
    /\ \E text \in Texts : Commit(MultiSelect_handleInputChange(Render, text), "InputChange", text)

MultiKeyDown ==
    /\ multi /\ creatable /\ ~disabled
    /\ \E key \in Keys : Commit(MultiSelect_handleKeyDown(Render, key), "KeyDown", <<key>>)

MultiItemClick ==
    /\ multi /\ isOpen
    /\ \E i \in 1..Len(MultiSelect_filteredChildren) :
          LET v == MultiSelect_filteredChildren[i].value
          IN  Commit(MultiSelect_handleToggleValue(Render, v), "ItemClick", v)

\* the X of a chip
MultiRemoveClick ==
    /\ multi
    /\ \E i \in 1..Len(value) :
          Commit(MultiSelect_bubble(MultiSelect_handleRemoveValue(Render, value[i])),
                 "RemoveClick", value[i])

\* the clear-all X
MultiClearAll ==
    /\ multi /\ Len(value) > 0
    /\ Commit(MultiSelect_bubble(MultiSelect_handleClearAll(Render)), "ClearAll", <<>>)

MultiCreateRowClick ==
    /\ multi /\ MultiSelect_createRow
    /\ Commit(MultiSelect_handleCreateValue(Render), "CreateRowClick", <<>>)

MultiClickOutside ==
    /\ multi /\ isOpen
    /\ Commit(MultiSelect_handleClickOutside(Render), "ClickOutside", <<>>)

Next ==
    \/ SetDisabled
    \/ SelectTriggerClick
    \/ SelectInputChange
    \/ SelectKeyDown
    \/ SelectItemClick
    \/ SelectCreateRowClick
    \/ SelectClickOutside
    \/ MultiContainerClick
    \/ MultiInputFocus
    \/ MultiInputChange
    \/ MultiKeyDown
    \/ MultiItemClick
    \/ MultiRemoveClick
    \/ MultiClearAll
    \/ MultiCreateRowClick
    \/ MultiClickOutside

Spec == Init /\ [][Next]_vars

\* ------------------------------------------------------------------ claims
\* the callbacks of the last event that are `cb`
callsOf(cb) == SelectSeq(calls, LAMBDA c : c.cb = cb)

\* the last event left isOpen, inputValue and value as it found them and
\* invoked no callback
silentNoOp ==
    /\ calls = <<>>
    /\ isOpen = pre.isOpen
    /\ inputValue = pre.inputValue
    /\ value = pre.value

\* a handler result that neither opens the dropdown nor reports an open change
staysClosed(s) == ~s.isOpen /\ \A i \in 1..Len(s.calls) : s.calls[i].cb # "onOpenChange"

\* C1: while `disabled` is set, no event on a closed widget (trigger click,
\* container click, outside click, item or icon click) opens it or invokes
\* onOpenChange; the same holds of the text field's focus and change handlers,
\* which the disabled text field does not even dispatch.
C1_DisabledNeverOpens ==
    /\ (last.ev # "mount" /\ pre.disabled /\ ~pre.isOpen) =>
          (~isOpen /\ callsOf("onOpenChange") = <<>>)
    /\ (disabled /\ ~isOpen) =>
          /\ staysClosed(Select_handleOpenChange(disabled, Render, TRUE))
          /\ staysClosed(MultiSelect_handleContainerClick(Render))
          /\ staysClosed(MultiSelect_onFocus(Render))
          /\ \A text \in Texts : staysClosed(Select_handleInputChange(Render, text))
          /\ \A text \in Texts : staysClosed(MultiSelect_handleInputChange(Render, text))

\* a disabled, closed widget whose trigger or container was just clicked
C1_Witness ==
    /\ last.ev \in {"TriggerClick", "ContainerClick"}
    /\ pre.disabled /\ ~pre.isOpen
    /\ ~isOpen

\* C2 (as claimed): in single-select mode a click on a shown item invokes
\* onValueChange exactly once, with that item's value, and leaves the dropdown
\* closed with an empty filter text, whatever maxLength, disabled and defaultOpen.
C2_ItemClickCommitsAndCloses ==
    (~multi /\ last.ev = "ItemClick") =>
        /\ callsOf("onValueChange") = <<ValueCall(last.arg)>>
        /\ ~isOpen
        /\ inputValue = <<>>

\* C3 (as claimed): with maxLength supplied, an edit to a text longer than
\* maxLength, an item selection or toggle of a value longer than maxLength and a
\* creation of a trimmed text longer than maxLength are silent no-ops.
C3_TooLongIsNoOp ==
    /\ (maxLengthSet(maxLength) /\ last.ev \in {"InputChange", "ItemClick"}
            /\ Len(last.arg) > maxLength) => silentNoOp
    /\ (maxLengthSet(maxLength) /\ last.ev \in {"KeyDown", "CreateRowClick"}
            /\ Len(trim(pre.inputValue)) > maxLength) => silentNoOp
    /\ maxLengthSet(maxLength) => Len(inputValue) <= maxLength

\* C4 (as claimed): a mousedown outside the root of an open widget leaves it
\* closed with an empty inputValue, also when `disabled` is set or has changed.
C4_OutsideClickCloses ==
    last.ev = "ClickOutside" => (~isOpen /\ inputValue = <<>>)

\* C5 (as claimed): toggling the same item twice in a row, the caller applying
\* each reported array, gives back the original array, whatever the array.
C5_ToggleTwiceRestores ==
    toggledFrom # <<>> => value = toggledFrom[1]

\* C5 (amended): toggling v twice in a row gives back the original array when v
\* is absent from it (add, then remove); when v is present it gives the array
\* with every occurrence of v removed and v appended at the end.
C5_ToggleTwice ==
    toggledFrom # <<>> =>
        LET orig == toggledFrom[1]
            v == last.arg
        IN  value = IF \A i \in 1..Len(orig) : orig[i] # v THEN orig
                    ELSE Append(SelectSeq(orig, LAMBDA x : x # v), v)

\* an absent item of a non-empty array was toggled twice
C5_Witness ==
    /\ toggledFrom # <<>>
    /\ Len(toggledFrom[1]) >= 1
    /\ \A i \in 1..Len(toggledFrom[1]) : toggledFrom[1][i] # last.arg
    /\ value = toggledFrom[1]

\* the letters of the alphabet that differ only in case
sameIgnoringCase(c, d) == c = d \/ {c, d} = {"a", "A"}

\* `text` occurs in `label` at some offset, letter case ignored
containsIgnoringCase(label, text) ==
    \E k \in 0..(Len(label) - Len(text)) :
        \A j \in 1..Len(text) : sameIgnoringCase(label[k + j], text[j])

\* some option's label (its value, when the label is not plain text) contains `text`
someOptionContains(text) ==
    \E i \in 1..Len(options) :
        containsIgnoringCase(IF options[i].plain THEN options[i].label ELSE options[i].value,
                             text)

withinMaxLength(text) == maxLengthSet(maxLength) => Len(text) <= maxLength

lastIsEnter == last.ev = "KeyDown" /\ last.arg = <<"Enter">>

\* C6: in creatable single-select, Enter on a filter text that is non-empty once
\* trimmed, within maxLength and contained in no option invokes onCreateOption
\* once with the trimmed text, then onValueChange once with the same text, and
\* leaves the dropdown closed with an empty inputValue; when some option
\* contains the filter text, Enter invokes nothing and changes nothing.
C6_EnterCreatesSingle ==
    (~multi /\ lastIsEnter) =>
        LET t == trim(pre.inputValue)
        IN  /\ (t # <<>> /\ withinMaxLength(t) /\ ~someOptionContains(pre.inputValue)) =>
                  /\ SelectSeq(calls, LAMBDA c : c.cb # "onOpenChange")
                        = <<CreateCall(t), ValueCall(t)>>
                  /\ value = t
                  /\ ~isOpen
                  /\ inputValue = <<>>
            /\ someOptionContains(pre.inputValue) => silentNoOp

\* Enter created a text that trimming shortened
C6_Witness ==
    /\ ~multi /\ lastIsEnter
    /\ callsOf("onCreateOption") # <<>>
    /\ trim(pre.inputValue) # pre.inputValue
    /\ ~isOpen

\* C7: in creatable MultiSelect, a creation (Enter with no option containing the
\* filter text, or a click on the Create row) of a trimmed text that is
\* non-empty, within maxLength and not in the array invokes onCreateOption once
\* with it and onValueChange once with the array followed by it, clears
\* inputValue, keeps the open flag and does not invoke onOpenChange.
C7_CreateAppendsMulti ==
    LET t == trim(pre.inputValue)
    IN  (/\ multi
         /\ \/ lastIsEnter /\ ~someOptionContains(pre.inputValue)
            \/ last.ev = "CreateRowClick"
         /\ t # <<>> /\ withinMaxLength(t)
         /\ \A i \in 1..Len(pre.value) : pre.value[i] # t) =>
            /\ calls = <<CreateCall(t), ValueCall(Append(pre.value, t))>>
            /\ value = Append(pre.value, t)
            /\ inputValue = <<>>
            /\ isOpen = pre.isOpen

\* Enter appended a created text to a non-empty array of an open dropdown
C7_Witness ==
    /\ multi /\ lastIsEnter
    /\ callsOf("onCreateOption") # <<>>
    /\ Len(pre.value) >= 1
    /\ isOpen

\* C8: a creation attempt (Enter or a click on the Create row) on an empty or
\* whitespace-only filter text, and in MultiSelect one whose trimmed text is
\* already in the array, invokes no callback and changes no state.
C8_InvalidCreateIsNoOp ==
    LET t == trim(pre.inputValue)
    IN  (lastIsEnter \/ last.ev = "CreateRowClick") =>
            /\ t = <<>> => silentNoOp
            /\ (multi /\ \E i \in 1..Len(pre.value) : pre.value[i] = t) => silentNoOp

\* Enter in a MultiSelect on a text no option contains, already in the array
C8_Witness ==
    /\ multi /\ lastIsEnter
    /\ trim(pre.inputValue) # <<>>
    /\ ~someOptionContains(pre.inputValue)
    /\ \E i \in 1..Len(pre.value) : pre.value[i] = trim(pre.inputValue)
    /\ silentNoOp

\* the Create row of a single-select, showing a whitespace-only text, was clicked
C8_WitnessWhitespaceRow ==
    /\ ~multi /\ last.ev = "CreateRowClick"
    /\ pre.inputValue # <<>> /\ trim(pre.inputValue) = <<>>
    /\ silentNoOp

\* C9: the remove icon of the chip of v invokes onValueChange once with the
\* array minus v, the rest in order, and the clear-all icon with the empty
\* array; both leave the open flag and inputValue alone and do not invoke
\* onOpenChange.
C9_RemoveKeepsInteractionState ==
    /\ last.ev = "RemoveClick" =>
          /\ calls = <<ValueCall(SelectSeq(pre.value, LAMBDA x : x # last.arg))>>
          /\ isOpen = pre.isOpen
          /\ inputValue = pre.inputValue
    /\ last.ev = "ClearAll" =>
          /\ calls = <<ValueCall(<<>>)>>
          /\ isOpen = pre.isOpen
          /\ inputValue = pre.inputValue

\* a chip of a closed, enabled MultiSelect holding two values was removed
C9_Witness ==
    /\ last.ev = "RemoveClick"
    /\ ~pre.disabled /\ ~pre.isOpen /\ ~isOpen
    /\ Len(pre.value) = 2 /\ Len(value) = 1

\* the option list the open dropdown shows
visibleOptions == IF multi THEN MultiSelect_filteredChildren ELSE SelectContent_filteredChildren

\* C10: in creatable mode the visible options are exactly the options whose
\* label (or value, when the label is not plain text) contains the filter text
\* ignoring case, in declared order; in non-creatable mode every option is
\* visible in every reachable state.
C10_VisibleIsCaseInsensitiveSubstring ==
    /\ creatable =>
          visibleOptions =
              SelectSeq(options,
                        LAMBDA o : containsIgnoringCase(IF o.plain THEN o.label ELSE o.value,
                                                        inputValue))
    /\ ~creatable => visibleOptions = options

\* a filter text that matches one of two options, and only when case is ignored
C10_Witness ==
    /\ creatable /\ inputValue # <<>>
    /\ Len(options) = 2 /\ Len(visibleOptions) = 1
    /\ ~includes(itemLabel(visibleOptions[1]), inputValue)

\* the last event committed a value: a selection or a creation that reached
\* onValueChange
valueCommitted ==
    /\ last.ev \in {"ItemClick", "KeyDown", "CreateRowClick"}
    /\ callsOf("onValueChange") # <<>>

\* C11 (as claimed): in both widgets, in every state reached from a widget
\* mounted closed, a closed dropdown has an empty inputValue, and inputValue is
\* empty right after any value commit.
C11_ClosedMeansEmptyInput ==
    ~defaultOpen =>
        /\ ~isOpen => inputValue = <<>>
        /\ valueCommitted => inputValue = <<>>

\* the last event took the dropdown from Open to Closed
justClosed == pre.isOpen /\ ~isOpen

\* the last event created a value
creationCommitted == callsOf("onCreateOption") # <<>>

\* C12 (as claimed): the dropdown goes from Open to Closed only on an item
\* selection in Select, on an outside click, or on a creation commit; no other
\* event, a trigger or container click while Open included, closes it.
C12_OnlyListedEventsClose ==
    justClosed =>
        \/ ~multi /\ last.ev = "ItemClick"
        \/ last.ev = "ClickOutside"
        \/ creationCommitted

\* C12 (amended): the dropdown goes from Open to Closed only on an item
\* selection in Select, on an outside click, on a creation commit, or on a click
\* on Select's trigger while Open (the trigger toggles); no other event (a
\* MultiSelect container click while Open, an item toggle, a chip removal, a
\* clear-all, a focus or a text edit) closes it.
C12_ClosingTransitions ==
    justClosed =>
        \/ ~multi /\ last.ev = "ItemClick"
        \/ last.ev = "ClickOutside"
        \/ creationCommitted
        \/ ~multi /\ last.ev = "TriggerClick"

\* an Open Select whose trigger was clicked, and is now Closed
C12_Witness ==
    /\ ~multi /\ last.ev = "TriggerClick"
    /\ justClosed

\* C13: onOpenChange is invoked exactly when the open flag changes: an event that
\* changes the flag invokes it once, with the flag's new value, and an event that
\* leaves the flag alone does not invoke it; each invocation carries the
\* negation of what the caller heard before (defaultOpen at first), so what the
\* caller heard last is always the flag.
C13_OpenChangeReportsEveryChange ==
    /\ callsOf("onOpenChange") =
           IF isOpen # pre.isOpen THEN <<OpenCall(isOpen)>> ELSE <<>>
    /\ \A i \in 1..Len(calls) :
           calls[i].cb = "onOpenChange" => calls[i].open = ~pre.reported
    /\ reported = isOpen

\* a widget mounted closed that was opened and has just been closed again by an
\* outside click, which invoked onOpenChange(false)
C13_Witness ==
    /\ ~defaultOpen /\ last.ev = "ClickOutside"
    /\ pre.isOpen /\ pre.reported
    /\ callsOf("onOpenChange") = <<OpenCall(FALSE)>>

\* C14 (as claimed): while `disabled` is set no user event (item click, chip
\* remove icon, clear-all icon, Enter, Create row click), on a widget mounted
\* with defaultOpen included, invokes onValueChange or onCreateOption.
C14_DisabledNeverChangesSelection ==
    (last.ev # "mount" /\ pre.disabled) =>
        /\ callsOf("onValueChange") = <<>>
        /\ callsOf("onCreateOption") = <<>>

\* C15 (as claimed): whenever a creation commits a text t (the trimmed filter
\* text handed to onCreateOption), no declared option has a label (or value,
\* when the label is not plain text) that contains t ignoring case.
C15_CreationNeverDuplicatesOption ==
    \A i \in 1..Len(calls) :
        calls[i].cb = "onCreateOption" => ~someOptionContains(calls[i].val)

====
